---- MODULE Spec2Model ----
(***************************************************************************)
(* The migration queue processor of app/services/migrator/service.py:      *)
(* the copy engine (_ensure_and_copy_once), the cleanup engine             *)
(* (_cleanup_once), the queue observer (_update_queue_metrics) and the     *)
(* queue processor (process_queue_once), over a task store and two object  *)
(* storage endpoints.                                                      *)
(***************************************************************************)
EXTENDS Integers, Sequences, FiniteSets, TLC

VARIABLES
    store,      \* MigrationTask rows, indexed in created_at order
    srcObj,     \* the source endpoint's objects, by key
    dstObj,     \* the destination endpoint's objects, by key
    gauge,      \* migration_queue_gauge, by status
    last,       \* what the last tick of process_queue_once did
    ticksOn,    \* history: ticks spent on each task
    call,       \* what the last direct call of copy_once / cleanup_once did
    ncalls,     \* history: number of direct calls made
    ncopied,    \* history: copied outcomes per key since its source last changed
    pc,         \* concurrent workers: position of each inside process_queue_once
    cur,        \* concurrent workers: the row each has selected
    loc,        \* concurrent workers: each session's copy of its row
    fileMeta,   \* FileMeta rows, by key
    chaos       \* the chaos_fail_endpoints setting and the callers of chaos.py

vars == <<store, srcObj, dstObj, gauge, last, ticksOn, call, ncalls, ncopied, pc, cur, loc,
          fileMeta, chaos>>

(***************************************************************************)
(* Program constants.                                                      *)
(***************************************************************************)
MAX_ATTEMPTS == 5
max_retries == 3
InitialBackoff == 1
GrowingWindow == 5
BacklogLimit == 20

_QUEUE_STATUSES == {"queued", "running", "done", "failed", "cleanup"}
ReadyStatuses == {"queued", "cleanup", "failed"}

(***************************************************************************)
(* Bounds of the model.                                                    *)
(***************************************************************************)
NTasks == 2          \* rows of the store in Spec, LiveSpec and ConcSpec
NWorkers == 2        \* concurrent workers in ConcSpec
MaxCalls == 3        \* direct calls of copy_once / cleanup_once in CopySpec
MaxOver == 2         \* rows beyond BacklogLimit in BacklogSpec
MaxHandled == 2      \* rows the worker gets to in BacklogSpec

Keys == {"k1", "k2"}
KeyOf(id) == IF id % 2 = 1 THEN "k1" ELSE "k2"

(***************************************************************************)
(* Objects on an endpoint.  A HEAD of a present object answers its ETag     *)
(* and ContentLength; of an absent one, the code 404.                      *)
(***************************************************************************)
NoObj == [present |-> FALSE, etag |-> "", size |-> 0]
Obj(e, n) == [present |-> TRUE, etag |-> e, size |-> n]
SrcObjects == {NoObj, Obj("E1", 0), Obj("E1", 100)}
DstObjects == {NoObj, Obj("E1", 100), Obj("E2", 100)}

\* One storage operation, or one sleep, as the endpoint or the clock sees it:
\* arg is the endpoint of a storage operation (0 the source, 1 the
\* destination), the seconds of a sleep, the milliseconds of the latency.
Op(name, arg) == [op |-> name, arg |-> arg]

\* The storage operations among ops, each with its endpoint, and the pauses.
OpKinds(ops) ==
    {IF ops[i].op \in {"sleep", "latency"} THEN <<ops[i].op, 0>> ELSE <<ops[i].op, ops[i].arg>> :
         i \in 1..Len(ops)}

RECURSIVE CountOps(_, _)
CountOps(ops, kind) ==
    IF ops = <<>> THEN 0
    ELSE (IF Head(ops).op = kind THEN 1 ELSE 0) + CountOps(Tail(ops), kind)

RECURSIVE Sleeps(_)
\* The arguments of the retry loop's sleeps, in order.
Sleeps(ops) ==
    IF ops = <<>> THEN <<>>
    ELSE IF Head(ops).op = "sleep" THEN <<Head(ops).arg>> \o Sleeps(Tail(ops))
    ELSE Sleeps(Tail(ops))

(***************************************************************************)
(* The storage client.  head_object answers the object's metadata, the     *)
(* code 404 for an absent object, or the error code the endpoint is        *)
(* failing with.                                                           *)
(***************************************************************************)
NotFoundCodes == {"404", "NoSuchKey", "NotFound"}
ThrottlingCodes == {"429", "503", "Throttling", "TooManyRequests", "SlowDown"}
OtherCodes == {"AccessDenied"}

head_object(obj, fault) ==
    IF fault # "" THEN [code |-> fault, meta |-> NoObj]
    ELSE IF obj.present THEN [code |-> "", meta |-> obj]
    ELSE [code |-> "404", meta |-> NoObj]

\* _head_meta: {etag, size}, None on a not-found code, any other error raised.
_head_meta(obj, fault) ==
    LET r == head_object(obj, fault) IN
    IF r.code = "" THEN [raised |-> FALSE, code |-> "", meta |-> r.meta]
    ELSE IF r.code \in NotFoundCodes THEN [raised |-> FALSE, code |-> "", meta |-> NoObj]
    ELSE [raised |-> TRUE, code |-> r.code, meta |-> NoObj]

(***************************************************************************)
(* What the surroundings of one copy_once call answer: the policy gate's   *)
(* settings, the faults of the two HEADs, the second HEAD of the source    *)
(* (its answer and the age now - LastModified it yields), the outcome of   *)
(* each try of the retry loop, and whether the destination endpoint stores *)
(* the body under the source's ETag or under one of its own.               *)
(***************************************************************************)
TryKinds == {"ok", "get_throttle", "put_throttle", "get_error", "put_error"}
Head2Answers == {"ok", "noLastModified", "error"}
Ages == {0, 4, 5, 600}
Latencies == {0, 50}

Env(enf, enc, lat, hs, hd, h2, age, script, tcode, rw) ==
    [enforced |-> enf, encrypted |-> enc, latency |-> lat, headSrc |-> hs,
     headDst |-> hd, head2 |-> h2, age |-> age, script |-> script,
     tcode |-> tcode, rewrite |-> rw]

\* The quiet surroundings: no latency, no fault, an old object, tries that
\* succeed, the ETag kept.
CalmScript == <<"ok", "ok", "ok", "ok">>
GateEnv(enf, enc, lat) ==
    Env(enf, enc, lat, "", "", "ok", 600, CalmScript, "", FALSE)
Calm == GateEnv(FALSE, FALSE, 0)

\* Scripts of the retry loop, in canonical form: n throttled tries (the GET
\* throttled each time, or the PUT each time), then a try that ends the loop,
\* the tries after it never made.
Pad(seq) == seq \o [i \in 1..(max_retries + 1 - Len(seq)) |-> "ok"]
ThrottleRun(n, kind) == [i \in 1..n |-> kind]
ThrottleKinds == {"get_throttle", "put_throttle"}
Scripts ==
    {Pad(ThrottleRun(n, k) \o <<t>>) :
         n \in 0..max_retries, k \in ThrottleKinds, t \in {"ok", "get_error", "put_error"}}
    \cup {ThrottleRun(max_retries + 1, k) : k \in ThrottleKinds}
HasThrottle(script) == \E i \in 1..Len(script) : script[i] \in ThrottleKinds

\* The surroundings a call is run in: each group of answers is varied over
\* all its values with the other groups quiet.
GateSlice == {GateEnv(enf, enc, lat) : enf \in BOOLEAN, enc \in BOOLEAN, lat \in Latencies}
HeadSlice == {[Calm EXCEPT !.headSrc = c] : c \in OtherCodes}
             \cup {[Calm EXCEPT !.headDst = c] : c \in OtherCodes}
GuardSlice == {[Calm EXCEPT !.head2 = h, !.age = a] : h \in Head2Answers, a \in Ages}
EtagSlice == {[Calm EXCEPT !.rewrite = TRUE]}
RetrySlice == {[Calm EXCEPT !.script = sc, !.tcode = c] :
                   sc \in {x \in Scripts : HasThrottle(x)}, c \in ThrottlingCodes}
              \cup {[Calm EXCEPT !.script = sc] : sc \in {x \in Scripts : ~HasThrottle(x)}}
Envs == GateSlice \cup HeadSlice \cup GuardSlice \cup EtagSlice \cup RetrySlice
\* The surroundings of the ticks of the queue processor: the same, with one
\* throttling code, no chaos latency, and a retry loop that is throttled
\* never, on every try but the last, or on every try.
TickEnvs ==
    {e \in Envs : /\ e.latency = 0 /\ e.tcode \in {"", "SlowDown"}
                  /\ \A n \in 1..(max_retries - 1) :
                        e.script[n] \in ThrottleKinds => e.script[n + 1] \in ThrottleKinds}
\* One surrounding for each way a copy can end.
OutcomeEnvs ==
    {Calm, GateEnv(TRUE, FALSE, 0), [Calm EXCEPT !.headSrc = "AccessDenied"],
     [Calm EXCEPT !.age = 0], [Calm EXCEPT !.rewrite = TRUE],
     [Calm EXCEPT !.script = ThrottleRun(max_retries + 1, "get_throttle"), !.tcode = "SlowDown"]}

(***************************************************************************)
(* _ensure_and_copy_once(key, src, dst).  The outcome is the returned      *)
(* mapping (status, reason) or the exception raised (raised, code); ops is *)
(* what the call did to the endpoints and the clock, in order, and dst the *)
(* destination's object when it returns.                                   *)
(***************************************************************************)
Outcome(status, reason, ops, dst) ==
    [status |-> status, reason |-> reason, raised |-> FALSE, code |-> "",
     ops |-> ops, dst |-> dst]
Raise(code, ops, dst) ==
    [status |-> "raised", reason |-> "", raised |-> TRUE, code |-> code,
     ops |-> ops, dst |-> dst]

\* security.is_encryption_enforced() and not security.endpoint_is_encrypted(dst)
GateBlocksEnforcedOnly(e) == e.enforced
GateBlocks(e) == e.enforced /\ ~e.encrypted

\* sm and dm and sm.etag == dm.etag and sm.size == dm.size
SameObject(sm, dm) ==
    sm.present /\ dm.present /\ sm.etag = dm.etag /\ sm.size = dm.size

\* (now - last_modified).total_seconds() < 5
FileGrowingShortWindow(age) == age < GrowingWindow - 1
FileGrowing(age) == age < GrowingWindow

\* The second HEAD of the source skips the call only when it answers a
\* LastModified inside the window; an error or no LastModified is passed over.
GuardSkips(e) == e.head2 = "ok" /\ FileGrowing(e.age)

IsThrottling(code) == code \in ThrottlingCodes

\* backoff *= 2
NextBackoffLinear(b) == b + 1
NextBackoff(b) == b * 2

\* The object put_object leaves on the destination for the source's body.
PutResult(sm, e) == Obj(IF e.rewrite THEN "E2" ELSE sm.etag, sm.size)

TryCode(kind, e) ==
    IF kind \in {"get_throttle", "put_throttle"} THEN e.tcode ELSE "AccessDenied"

RECURSIVE CopyLoop(_, _, _, _, _, _)
CopyLoop(attempt, backoff, sm, dm, e, ops) ==
    IF attempt > max_retries
    THEN Outcome("failed", "max_retries_exceeded", ops, dm)
    ELSE
      LET kind == e.script[attempt + 1]
          got  == ops \o <<Op("GET", 0)>>
          tried == IF kind \in {"get_throttle", "get_error"}
                   THEN got ELSE got \o <<Op("PUT", 1)>>
          code == TryCode(kind, e)
      IN
      IF kind = "ok"
      THEN Outcome("copied", "", tried, PutResult(sm, e))
      ELSE IF IsThrottling(code) /\ attempt < max_retries
      THEN CopyLoop(attempt + 1, NextBackoff(backoff), sm, dm, e,
                    tried \o <<Op("sleep", backoff)>>)
      ELSE Raise(code, tried, dm)

_ensure_and_copy_once(so, do, e) ==
    IF GateBlocks(e)
    THEN Outcome("blocked", "destination_not_encrypted", <<>>, do)
    ELSE
      LET lat   == IF e.latency > 0 THEN <<Op("latency", e.latency)>> ELSE <<>>
          ens   == lat \o <<Op("ensure_bucket", 0), Op("ensure_bucket", 1)>>
          hs    == _head_meta(so, e.headSrc)
          ops1  == ens \o <<Op("HEAD", 0)>>
          hd    == _head_meta(do, e.headDst)
          ops2  == ops1 \o <<Op("HEAD", 1)>>
          sm    == hs.meta
          dm    == hd.meta
          ops3  == ops2 \o <<Op("HEAD", 0)>>
      IN
      IF hs.raised THEN Raise(hs.code, ops1, do)
      ELSE IF hd.raised THEN Raise(hd.code, ops2, do)
      ELSE IF SameObject(sm, dm) THEN Outcome("noop", "", ops2, do)
      ELSE IF ~sm.present
      THEN (IF dm.present THEN Outcome("noop", "", ops2, do)
            ELSE Outcome("missing_source", "", ops2, do))
      ELSE IF sm.size = 0 THEN Outcome("skipped", "empty_source", ops2, do)
      ELSE IF GuardSkips(e) THEN Outcome("skipped", "file_growing", ops3, do)
      ELSE CopyLoop(0, InitialBackoff, sm, do, e, ops3)

(***************************************************************************)
(* _cleanup_once(key, src): DELETE of the source's object.                 *)
(***************************************************************************)
\* What delete_object answers: success, the code 404 (only for an absent
\* object; an endpoint may also answer success there), or another error.
DeleteAnswers == {"ok", "404", "AccessDenied"}
DeleteAnswersFor(obj) == IF obj.present THEN DeleteAnswers \ NotFoundCodes ELSE DeleteAnswers

_cleanup_once_probing(so, answer) ==
    IF answer = "ok"
    THEN [status |-> "deleted", reason |-> "", raised |-> FALSE, code |-> "",
          ops |-> <<Op("HEAD", 0), Op("DELETE", 0)>>, src |-> NoObj]
    ELSE IF answer \in NotFoundCodes
    THEN [status |-> "noop", reason |-> "", raised |-> FALSE, code |-> "",
          ops |-> <<Op("HEAD", 0), Op("DELETE", 0)>>, src |-> so]
    ELSE [status |-> "raised", reason |-> "", raised |-> TRUE, code |-> answer,
          ops |-> <<Op("HEAD", 0), Op("DELETE", 0)>>, src |-> so]
_cleanup_once(so, answer) ==
    IF answer = "ok"
    THEN [status |-> "deleted", reason |-> "", raised |-> FALSE, code |-> "",
          ops |-> <<Op("DELETE", 0)>>, src |-> NoObj]
    ELSE IF answer \in NotFoundCodes
    THEN [status |-> "noop", reason |-> "", raised |-> FALSE, code |-> "",
          ops |-> <<Op("DELETE", 0)>>, src |-> so]
    ELSE [status |-> "raised", reason |-> "", raised |-> TRUE, code |-> answer,
          ops |-> <<Op("DELETE", 0)>>, src |-> so]

(***************************************************************************)
(* The task store.  Row i is the i-th oldest row by created_at, which no   *)
(* code writes after the insertion; a deleted row leaves its place empty.  *)
(***************************************************************************)
NoRow == [exists |-> FALSE, status |-> "", attempts |-> 0, error |-> "", key |-> ""]
Row(st, n, k) == [exists |-> TRUE, status |-> st, attempts |-> n, error |-> "", key |-> k]

Ids(st) == DOMAIN st
Ready(st, i) == st[i].exists /\ st[i].status \in ReadyStatuses
ReadyIds(st) == {i \in Ids(st) : Ready(st, i)}

\* query(...).filter(status in (queued, cleanup, failed))
\*           .order_by(created_at.asc()).first();  0 when there is none.
OldestReadyYoungest(st) ==
    IF ReadyIds(st) = {} THEN 0
    ELSE CHOOSE i \in ReadyIds(st) : \A j \in ReadyIds(st) : j <= i
OldestReady(st) ==
    IF ReadyIds(st) = {} THEN 0
    ELSE CHOOSE i \in ReadyIds(st) : \A j \in ReadyIds(st) : i <= j

\* session.query(status, count).group_by(status), zero-filled.
CountByStatusReady(st) ==
    [s \in _QUEUE_STATUSES |->
        IF s \in ReadyStatuses
        THEN Cardinality({i \in Ids(st) : st[i].exists /\ st[i].status = s}) ELSE 0]
CountByStatus(st) ==
    [s \in _QUEUE_STATUSES |-> Cardinality({i \in Ids(st) : st[i].exists /\ st[i].status = s})]

\* if queued > 20: alerts.create_alert("migration_backlog", "warning", ...)
BacklogAtLimit(queued) == queued >= BacklogLimit
Backlog(queued) == queued > BacklogLimit

NoAlert == [fired |-> FALSE, name |-> "", severity |-> "", n |-> 0, queued |-> 0]

\* _update_queue_metrics: the gauge's values and the alert raised, if any.
\* n is the number in the message "<n> migration tasks queued", queued the
\* metadata's.
_update_queue_metrics(st) ==
    LET counts == CountByStatus(st)
        queued == counts["queued"]
    IN [gauge |-> counts,
        alert |-> IF Backlog(queued)
                  THEN [fired |-> TRUE, name |-> "migration_backlog",
                        severity |-> "warning", n |-> queued, queued |-> queued]
                  ELSE NoAlert]

(***************************************************************************)
(* The FileMeta table: at most one row per key, holding a version_token.   *)
(***************************************************************************)
NoMeta == [exists |-> FALSE, version_token |-> ""]
Meta(tok) == [exists |-> TRUE, version_token |-> tok]
InitMeta == [k \in Keys |-> IF k = "k1" THEN Meta("t0") ELSE NoMeta]

\* uuid4().hex of a copied outcome: an identifier the key's row does not
\* hold yet; no other outcome has one.
Tokens == {"t1", "t2"}
VersionTokens(r, held) ==
    IF r.status = "copied" THEN {CHOOSE t \in Tokens : t # held.version_token} ELSE {""}

\* if r["status"] == "copied" and "version_token" in r
WritesTokenOnDone(r) == r.status \in {"copied", "noop"}
WritesToken(r) == r.status = "copied"

\* Lines 152-157: fm = query(FileMeta).filter_by(key).first();
\* if fm: fm.version_token = r["version_token"]
UpdateFileMeta(fm, k, r, tok) ==
    IF ~r.raised /\ WritesToken(r) /\ fm[k].exists
    THEN [fm EXCEPT ![k].version_token = tok]
    ELSE fm

(***************************************************************************)
(* process_queue_once, the part after the copy or the cleanup returned.    *)
(***************************************************************************)
\* str(r) of a returned mapping, str(e) of a raised ClientError.
StrOutcome(r) ==
    CASE r.status = "skipped" /\ r.reason = "empty_source" ->
             "{'status': 'skipped', 'reason': 'empty_source'}"
      [] r.status = "skipped" /\ r.reason = "file_growing" ->
             "{'status': 'skipped', 'reason': 'file_growing'}"
      [] r.status = "failed" ->
             "{'status': 'failed', 'error': 'max_retries_exceeded'}"
      [] OTHER -> "{'status': '?'}"
StrError(code) ==
    CASE code = "AccessDenied" -> "An error occurred (AccessDenied)"
      [] code = "429" -> "An error occurred (429)"
      [] code = "503" -> "An error occurred (503)"
      [] code = "Throttling" -> "An error occurred (Throttling)"
      [] code = "TooManyRequests" -> "An error occurred (TooManyRequests)"
      [] code = "SlowDown" -> "An error occurred (SlowDown)"
      [] OTHER -> "An error occurred"

Verdict(status, error, incs) == [status |-> status, error |-> error, incs |-> incs]

\* Lines 147-168: the status, the error and the counter's label that the
\* outcome of the copy gives the task.
CopyVerdictSkipIsDone(r) ==
    IF r.raised THEN Verdict("failed", StrError(r.code), <<"error">>)
    ELSE IF r.status \in {"copied", "noop", "skipped"} THEN Verdict("done", "", <<r.status>>)
    ELSE IF r.status = "missing_source" THEN Verdict("failed", "missing_source", <<"missing_source">>)
    ELSE IF r.status = "blocked" THEN Verdict("failed", r.reason, <<"blocked">>)
    ELSE Verdict("failed", StrOutcome(r), <<>>)
CopyVerdictBlockedPlain(r) ==
    IF r.raised THEN Verdict("failed", StrError(r.code), <<"error">>)
    ELSE IF r.status \in {"copied", "noop"} THEN Verdict("done", "", <<r.status>>)
    ELSE IF r.status = "missing_source" THEN Verdict("failed", "missing_source", <<"missing_source">>)
    ELSE IF r.status = "blocked" THEN Verdict("failed", "blocked", <<"blocked">>)
    ELSE Verdict("failed", StrOutcome(r), <<>>)
CopyVerdict(r) ==
    IF r.raised THEN Verdict("failed", StrError(r.code), <<"error">>)
    ELSE IF r.status \in {"copied", "noop"} THEN Verdict("done", "", <<r.status>>)
    ELSE IF r.status = "missing_source" THEN Verdict("failed", "missing_source", <<"missing_source">>)
    ELSE IF r.status = "blocked" THEN Verdict("failed", r.reason, <<"blocked">>)
    ELSE Verdict("failed", StrOutcome(r), <<>>)

\* Lines 180-186: the same for the cleanup.
CleanupVerdict(r) ==
    IF r.raised THEN Verdict("failed", StrError(r.code), <<"cleanup_error">>)
    ELSE Verdict("done", "", <<r.status>>)

\* if t.attempts >= MAX_ATTEMPTS: s.delete(t)
ExhaustedAbove(a) == a > MAX_ATTEMPTS
Exhausted(a) == a >= MAX_ATTEMPTS

\* t.attempts = (t.attempts or 0) + 1
BumpUnparenthesised(row) == IF row.attempts # 0 THEN row.attempts ELSE 0 + 1
Bump(row) == row.attempts + 1

\* Lines 169-175 and 187-193: the row the tick commits; a failed task counts
\* one more attempt and is deleted or goes back to `requeue`.
Settle(row, v, requeue) ==
    IF v.status = "failed"
    THEN LET a == Bump(row) IN
         IF Exhausted(a) THEN NoRow
         ELSE [row EXCEPT !.status = requeue, !.attempts = a, !.error = v.error]
    ELSE [row EXCEPT !.status = v.status, !.error = v.error]

\* Lines 175 and 193: the status a failed task goes back to.
CopyRequeue == "queued"
CleanupRequeueQueued == "queued"
CleanupRequeue == "cleanup"

\* The attempts the session's task holds when the tick commits.
AttemptsHeld(row, v) == IF v.status = "failed" THEN Bump(row) ELSE row.attempts

(***************************************************************************)
(* The state no specification below has touched yet.                       *)
(***************************************************************************)
NoCall == [fn |-> "none", key |-> "", src |-> NoObj, dst |-> NoObj, env |-> Calm,
           answer |-> "", status |-> "", reason |-> "", raised |-> FALSE,
           code |-> "", ops |-> <<>>]
NoTick == [phase |-> "none", id |-> 0, before |-> NoRow, status |-> "", reason |-> "",
           raised |-> FALSE, code |-> "", verdict |-> "", ret |-> FALSE,
           deleted |-> FALSE, held |-> 0,
           incs |-> <<>>, alert |-> NoAlert, nput |-> 0, ndelete |-> 0,
           kinds |-> {}, token |-> ""]
Workers == 1..NWorkers

NoLoc == [row |-> NoRow, v |-> Verdict("", "", <<>>)]

IdleWorkers ==
    /\ pc = [w \in Workers |-> "idle"]
    /\ cur = [w \in Workers |-> 0]
    /\ loc = [w \in Workers |-> NoLoc]

(***************************************************************************)
(* policy/chaos.py: the chaos_fail_endpoints setting, stored as the sorted *)
(* names joined by commas, and the callers of fail_endpoint and            *)
(* recover_endpoint.  The stored string is held as the sequence of its     *)
(* pieces, names and commas; names are not empty and hold no comma.  The  *)
(* store answers each get_list and each set_setting atomically.            *)
(***************************************************************************)
NCallers == 2
Callers == 1..NCallers
Names == {"s1", "s2", "s3"}
NameRank == [n \in Names |-> CASE n = "s1" -> 1 [] n = "s2" -> 2 [] n = "s3" -> 3]

RECURSIVE sorted(_)
\* sorted(current)
sorted(S) ==
    IF S = {} THEN <<>>
    ELSE LET m == CHOOSE x \in S : \A y \in S : NameRank[x] <= NameRank[y]
         IN <<m>> \o sorted(S \ {m})

RECURSIVE join(_)
\* ",".join(names)
join(names) ==
    IF Len(names) <= 1 THEN names
    ELSE <<Head(names), ",">> \o join(Tail(names))
IsName(piece) == piece # ","
\* settings.get_list(FAIL_KEY): the stored string split at its commas, the
\* empty list for the empty string.
get_list(stored) == SelectSeq(stored, IsName)
\* set(get_failed_endpoints())
get_failed_endpoints(stored) == {get_list(stored)[i] : i \in 1..Len(get_list(stored))}

NoChaos == [stored |-> <<>>,
            pc |-> [c \in Callers |-> "idle"],
            name |-> [c \in Callers |-> ""],
            current |-> [c \in Callers |-> {}],
            ret |-> [c \in Callers |-> <<>>]]

(***************************************************************************)
(* CopySpec: copy_once and cleanup_once called directly, any number of     *)
(* times, on the objects of the two endpoints.                             *)
(***************************************************************************)
CopyInit ==
    /\ srcObj \in [Keys -> SrcObjects]
    /\ dstObj \in [Keys -> DstObjects]
    /\ srcObj["k2"] = Obj("E1", 100) /\ dstObj["k2"] = NoObj
    /\ store = <<>>
    /\ gauge = [s \in _QUEUE_STATUSES |-> 0]
    /\ last = NoTick
    /\ ticksOn = <<>>
    /\ call = NoCall
    /\ ncalls = 0
    /\ ncopied = [k \in Keys |-> 0]
    /\ fileMeta = InitMeta
    /\ chaos = NoChaos
    /\ IdleWorkers

CopyOnce(k, e) ==
    /\ ncalls < MaxCalls
    /\ \E r \in {_ensure_and_copy_once(srcObj[k], dstObj[k], e)} :
        /\ call' = [fn |-> "copy_once", key |-> k, src |-> srcObj[k], dst |-> dstObj[k],
                    env |-> e, answer |-> "", status |-> r.status, reason |-> r.reason,
                    raised |-> r.raised, code |-> r.code, ops |-> r.ops]
        /\ dstObj' = [dstObj EXCEPT ![k] = r.dst]
        /\ ncalls' = ncalls + 1
        /\ ncopied' = [ncopied EXCEPT ![k] = @ + (IF r.status = "copied" THEN 1 ELSE 0)]
        /\ UNCHANGED <<store, srcObj, gauge, last, ticksOn, pc, cur, loc, fileMeta, chaos>>

CleanupOnce(k, answer) ==
    LET r == _cleanup_once(srcObj[k], answer) IN
    /\ ncalls < MaxCalls
    /\ answer \in DeleteAnswersFor(srcObj[k])
    /\ call' = [fn |-> "cleanup_once", key |-> k, src |-> srcObj[k], dst |-> dstObj[k],
                env |-> Calm, answer |-> answer, status |-> r.status, reason |-> r.reason,
                raised |-> r.raised, code |-> r.code, ops |-> r.ops]
    /\ srcObj' = [srcObj EXCEPT ![k] = r.src]
    /\ ncalls' = ncalls + 1
    /\ ncopied' = [ncopied EXCEPT ![k] = IF r.src = srcObj[k] THEN @ ELSE 0]
    /\ UNCHANGED <<store, dstObj, gauge, last, ticksOn, pc, cur, loc, fileMeta, chaos>>

CopyNext ==
    \/ \E k \in Keys, e \in Envs : CopyOnce(k, e)
    \/ \E k \in Keys, a \in DeleteAnswers : CleanupOnce(k, a)

CopySpec == CopyInit /\ [][CopyNext]_vars

(***************************************************************************)
(* Spec: one worker calling process_queue_once again and again; each       *)
(* action is one whole call.  The store and the endpoints are assumed to   *)
(* answer the session's own commits.                                       *)
(***************************************************************************)
InitAttempts == {0, MAX_ATTEMPTS - 1}
InitRows(i) ==
    {Row(st, n, KeyOf(i)) : st \in ReadyStatuses, n \in InitAttempts}
    \cup {Row(st, 0, KeyOf(i)) : st \in _QUEUE_STATUSES \ ReadyStatuses}
InitObjects ==
    /\ srcObj \in [Keys -> SrcObjects]
    /\ dstObj \in [Keys -> DstObjects]
    /\ srcObj["k2"] = Obj("E1", 100) /\ dstObj["k2"] = NoObj

QuietRest ==
    /\ gauge = [s \in _QUEUE_STATUSES |-> 0]
    /\ last = NoTick
    /\ call = NoCall
    /\ ncalls = 0
    /\ ncopied = [k \in Keys |-> 0]
    /\ fileMeta = InitMeta
    /\ chaos = NoChaos
    /\ IdleWorkers

Init ==
    /\ store \in {st \in [1..NTasks -> UNION {InitRows(i) : i \in 1..NTasks}] :
                      \A i \in 1..NTasks : st[i] \in InitRows(i)}
    /\ ticksOn = [i \in 1..NTasks |-> 0]
    /\ InitObjects
    /\ QuietRest

TickRecord(phase, id, row, r, v, new, m, tok) ==
    [phase |-> phase, id |-> id, before |-> row, status |-> r.status, reason |-> r.reason,
     raised |-> r.raised, code |-> r.code, verdict |-> v.status, ret |-> TRUE,
     deleted |-> ~new.exists,
     held |-> AttemptsHeld(row, v), incs |-> v.incs, alert |-> m.alert,
     nput |-> CountOps(r.ops, "PUT"),
     ndelete |-> CountOps(r.ops, "DELETE"),
     kinds |-> OpKinds(r.ops), token |-> tok]

\* Lines 141-143: no ready row.
IdleTick ==
    /\ OldestReady(store) = 0
    /\ \E m \in {_update_queue_metrics(store)} :
        /\ gauge' = m.gauge
        /\ last' = [NoTick EXCEPT !.phase = "idle", !.alert = m.alert]
    /\ UNCHANGED <<store, srcObj, dstObj, ticksOn, call, ncalls, ncopied, pc, cur, loc, fileMeta, chaos>>

\* Lines 145-177: the oldest ready row is queued or failed; the copy runs in
\* one of the surroundings `envs`.
CopyTickIn(envs) ==
    \E id \in {OldestReady(store)} \ {0} :
    \E row \in {store[id]} :
        /\ row.status \in {"queued", "failed"}
        /\ \E r \in {_ensure_and_copy_once(srcObj[row.key], dstObj[row.key], e) : e \in envs} :
           \E v \in {CopyVerdict(r)} :
           \E tok \in VersionTokens(r, fileMeta[row.key]) :
           \E new \in {Settle(row, v, CopyRequeue)} :
           \E m \in {_update_queue_metrics([store EXCEPT ![id] = new])} :
            /\ store' = [store EXCEPT ![id] = new]
            /\ dstObj' = [dstObj EXCEPT ![row.key] = r.dst]
            /\ fileMeta' = UpdateFileMeta(fileMeta, row.key, r, tok)
            /\ gauge' = m.gauge
            /\ last' = TickRecord("copy", id, row, r, v, new, m, tok)
            /\ ticksOn' = [ticksOn EXCEPT ![id] = @ + 1]
        /\ UNCHANGED <<srcObj, call, ncalls, ncopied, pc, cur, loc, chaos>>

\* Lines 179-195: the oldest ready row is in cleanup.
CleanupTick ==
    \E id \in {OldestReady(store)} \ {0} :
    \E row \in {store[id]} :
        /\ row.status = "cleanup"
        /\ \E a \in DeleteAnswersFor(srcObj[row.key]) :
           \E r \in {_cleanup_once(srcObj[row.key], a)} :
           \E v \in {CleanupVerdict(r)} :
           \E new \in {Settle(row, v, CleanupRequeue)} :
           \E m \in {_update_queue_metrics([store EXCEPT ![id] = new])} :
            /\ store' = [store EXCEPT ![id] = new]
            /\ srcObj' = [srcObj EXCEPT ![row.key] = r.src]
            /\ gauge' = m.gauge
            /\ last' = TickRecord("cleanup", id, row, r, v, new, m, "")
            /\ ticksOn' = [ticksOn EXCEPT ![id] = @ + 1]
        /\ UNCHANGED <<dstObj, call, ncalls, ncopied, pc, cur, loc, fileMeta, chaos>>

CopyTick == CopyTickIn(TickEnvs)

process_queue_once == IdleTick \/ CopyTick \/ CleanupTick

Next == process_queue_once

Spec == Init /\ [][Next]_vars

\* LiveSpec: the worker's loop never stops calling process_queue_once.
LiveRows(i) ==
    {Row("queued", 0, KeyOf(i)), Row("failed", MAX_ATTEMPTS - 1, KeyOf(i)),
     Row("cleanup", 0, KeyOf(i)), Row("done", 0, KeyOf(i))}
LiveInit ==
    /\ store \in {st \in [1..NTasks -> UNION {LiveRows(i) : i \in 1..NTasks}] :
                      \A i \in 1..NTasks : st[i] \in LiveRows(i)}
    /\ ticksOn = [i \in 1..NTasks |-> 0]
    /\ srcObj = [k \in Keys |-> Obj("E1", 100)]
    /\ dstObj = [k \in Keys |-> NoObj]
    /\ QuietRest
LiveCopyTick == CopyTickIn(OutcomeEnvs)
LiveNext == IdleTick \/ LiveCopyTick \/ CleanupTick
LiveSpec == LiveInit /\ [][LiveNext]_vars /\ WF_vars(LiveNext)

\* BlockedSpec: the single worker while encryption enforcement is on and the
\* destination endpoint is not encrypted, with and without chaos latency.
BlockedEnvs == {e \in Envs : e.enforced /\ ~e.encrypted}
BlockedCopyTick == CopyTickIn(BlockedEnvs)
BlockedNext == IdleTick \/ BlockedCopyTick \/ CleanupTick
BlockedSpec == Init /\ [][BlockedNext]_vars

(***************************************************************************)
(* BacklogSpec: the single worker on a long queue: one row, or               *)
(* BacklogLimit to BacklogLimit + MaxOver rows, all queued but perhaps the *)
(* oldest; the worker gets to the MaxHandled oldest rows.                  *)
(***************************************************************************)
BacklogSizes == {1} \cup {BacklogLimit + d : d \in 0..MaxOver}
BacklogStores(n) ==
    {[i \in 1..n |-> IF i = 1 THEN r ELSE Row("queued", 0, KeyOf(i))] : r \in InitRows(1)}
BacklogInit ==
    /\ \E n \in BacklogSizes :
          /\ store \in BacklogStores(n)
          /\ ticksOn = [i \in 1..n |-> 0]
    /\ srcObj = [k \in Keys |-> Obj("E1", 100)]
    /\ dstObj = [k \in Keys |-> NoObj]
    /\ QuietRest
Reachable == OldestReady(store) <= MaxHandled
BacklogIdle == Reachable /\ IdleTick
BacklogCopy == Reachable /\ CopyTickIn(OutcomeEnvs)
BacklogCleanup == Reachable /\ CleanupTick
BacklogNext == BacklogIdle \/ BacklogCopy \/ BacklogCleanup
BacklogSpec == BacklogInit /\ [][BacklogNext]_vars

(***************************************************************************)
(* ConcSpec: NWorkers workers calling process_queue_once on the same       *)
(* store, each with a session of its own.  A call is cut where its session *)
(* talks to the store: the query (lines 135-140), the commit of `running`  *)
(* (line 146), the copy or the cleanup (lines 148, 181) and the last       *)
(* commit (lines 175, 193).  An UPDATE or DELETE of a row that another     *)
(* session deleted raises, and the call ends there.                        *)
(***************************************************************************)
ConcRows(i) ==
    {Row("queued", 0, KeyOf(i)), Row("failed", MAX_ATTEMPTS - 1, KeyOf(i)),
     Row("cleanup", 0, KeyOf(i))}
ConcInit ==
    /\ store \in {st \in [1..NTasks -> UNION {ConcRows(i) : i \in 1..NTasks}] :
                      \A i \in 1..NTasks : st[i] \in ConcRows(i)}
    /\ ticksOn = [i \in 1..NTasks |-> 0]
    /\ srcObj = [k \in Keys |-> Obj("E1", 100)]
    /\ dstObj = [k \in Keys |-> NoObj]
    /\ QuietRest

\* Lines 135-140: the query, with a ready row.  ncalls counts the calls
\* that found a row and is capped at MaxCalls.
Select(w) ==
    /\ pc[w] = "idle"
    /\ ncalls < MaxCalls
    /\ \E id \in {OldestReady(store)} \ {0} :
        /\ cur' = [cur EXCEPT ![w] = id]
        /\ loc' = [loc EXCEPT ![w] = [NoLoc EXCEPT !.row = store[id]]]
        /\ pc' = [pc EXCEPT ![w] = "selected"]
    /\ ncalls' = ncalls + 1
    /\ UNCHANGED <<store, srcObj, dstObj, gauge, last, ticksOn, call, ncopied, fileMeta, chaos>>

\* Lines 141-143: the query, with no ready row.
SelectNone(w) ==
    /\ pc[w] = "idle"
    /\ OldestReady(store) = 0
    /\ \E m \in {_update_queue_metrics(store)} :
        /\ gauge' = m.gauge
        /\ last' = [NoTick EXCEPT !.phase = "idle", !.alert = m.alert]
    /\ UNCHANGED <<store, srcObj, dstObj, ticksOn, call, ncalls, ncopied, pc, cur, loc, fileMeta, chaos>>

\* Line 146: t.status = "running"; s.commit().
Claim(w) ==
    /\ pc[w] = "selected"
    /\ loc[w].row.status \in {"queued", "failed"}
    /\ IF store[cur[w]].exists
       THEN /\ store' = [store EXCEPT ![cur[w]].status = "running"]
            /\ loc' = [loc EXCEPT ![w].row = store'[cur[w]]]
            /\ pc' = [pc EXCEPT ![w] = "claimed"]
            /\ cur' = cur
       ELSE /\ pc' = [pc EXCEPT ![w] = "idle"]
            /\ cur' = [cur EXCEPT ![w] = 0]
            /\ loc' = [loc EXCEPT ![w] = NoLoc]
            /\ store' = store
    /\ UNCHANGED <<srcObj, dstObj, gauge, last, ticksOn, call, ncalls, ncopied, fileMeta, chaos>>

\* Lines 147-168: the copy.
RunCopy(w) ==
    /\ pc[w] = "claimed"
    /\ \E e \in OutcomeEnvs :
       \E k \in {loc[w].row.key} :
       \E r \in {_ensure_and_copy_once(srcObj[k], dstObj[k], e)} :
       \E tok \in VersionTokens(r, fileMeta[k]) :
        /\ dstObj' = [dstObj EXCEPT ![k] = r.dst]
        /\ fileMeta' = UpdateFileMeta(fileMeta, k, r, tok)
        /\ loc' = [loc EXCEPT ![w].v = CopyVerdict(r)]
    /\ pc' = [pc EXCEPT ![w] = "ran"]
    /\ UNCHANGED <<store, srcObj, gauge, last, ticksOn, call, ncalls, ncopied, cur, chaos>>

\* Lines 180-186: the cleanup.
RunCleanup(w) ==
    /\ pc[w] = "selected"
    /\ loc[w].row.status = "cleanup"
    /\ \E k \in {loc[w].row.key} :
       \E a \in DeleteAnswersFor(srcObj[k]) :
       \E r \in {_cleanup_once(srcObj[k], a)} :
        /\ srcObj' = [srcObj EXCEPT ![k] = r.src]
        /\ loc' = [loc EXCEPT ![w].v = CleanupVerdict(r)]
    /\ pc' = [pc EXCEPT ![w] = "ran"]
    /\ UNCHANGED <<store, dstObj, gauge, last, ticksOn, call, ncalls, ncopied, cur, fileMeta, chaos>>

\* Lines 169-177 and 187-195: the attempts policy, the commit of the
\* attributes the session changed, and the queue observer.
Commit(w) ==
    /\ pc[w] = "ran"
    /\ \E id \in {cur[w]} :
       \E new \in {Settle(loc[w].row, loc[w].v,
                          IF loc[w].row.status = "cleanup"
                          THEN CleanupRequeue ELSE CopyRequeue)} :
        IF store[id].exists
        THEN \E st \in {[store EXCEPT ![id] =
                            IF ~new.exists THEN NoRow
                            ELSE [store[id] EXCEPT
                                     !.status = new.status, !.error = new.error,
                                     !.attempts = IF loc[w].v.status = "failed"
                                                  THEN new.attempts ELSE @]]} :
             \E m \in {_update_queue_metrics(st)} :
                /\ store' = st
                /\ gauge' = m.gauge
                /\ last' = [NoTick EXCEPT
                               !.phase = IF loc[w].row.status = "cleanup" THEN "cleanup" ELSE "copy",
                               !.id = id, !.before = loc[w].row, !.verdict = loc[w].v.status,
                               !.ret = TRUE, !.deleted = ~new.exists,
                               !.held = AttemptsHeld(loc[w].row, loc[w].v),
                               !.incs = loc[w].v.incs, !.alert = m.alert]
        ELSE UNCHANGED <<store, gauge, last>>
    /\ pc' = [pc EXCEPT ![w] = "idle"]
    /\ cur' = [cur EXCEPT ![w] = 0]
    /\ loc' = [loc EXCEPT ![w] = NoLoc]
    /\ UNCHANGED <<srcObj, dstObj, ticksOn, call, ncalls, ncopied, fileMeta, chaos>>

ConcNext ==
    \E w \in Workers :
        \/ Select(w)
        \/ SelectNone(w)
        \/ Claim(w)
        \/ RunCopy(w)
        \/ RunCleanup(w)
        \/ Commit(w)

ConcSpec == ConcInit /\ [][ConcNext]_vars

(***************************************************************************)
(* Properties of copy_once, checked under CopySpec.                        *)
(***************************************************************************)
CopyCalled == call.fn = "copy_once"
NoPut == CountOps(call.ops, "PUT") = 0
\* The key is present on the source and the destination holds an object of
\* the same (etag, size), before the call.
IdenticalBefore ==
    /\ call.src.present /\ call.dst.present
    /\ call.src.etag = call.dst.etag /\ call.src.size = call.dst.size
GateOpen == ~call.env.enforced \/ call.env.encrypted
HeadsAnswer == call.env.headSrc = "" /\ call.env.headDst = ""

\* C6, as stated: with identical (etag, size) on the destination before the
\* call (and both HEADs answering), copy_once returns noop and performs no
\* PUT, for every setting of the policy gate.
C6_NoopForEveryGate ==
    (CopyCalled /\ IdenticalBefore /\ HeadsAnswer) => (call.status = "noop" /\ NoPut)

\* C6, amended: with identical (etag, size) on the destination before the
\* call, copy_once performs no PUT and leaves the destination as it was; it
\* returns noop when the encryption gate lets the call through and both HEADs
\* answer, and blocked (destination_not_encrypted) when the gate refuses.
C6_NoopWhenGateOpen ==
    (CopyCalled /\ IdenticalBefore) =>
        /\ NoPut
        /\ dstObj[call.key] = call.dst
        /\ (GateOpen /\ HeadsAnswer) => call.status = "noop"
        /\ ~GateOpen => (call.status = "blocked" /\ call.reason = "destination_not_encrypted")

C6_Witness ==
    /\ CopyCalled /\ IdenticalBefore
    /\ call.env.enforced /\ call.env.encrypted /\ call.env.latency > 0
    /\ call.status = "noop"

\* C7: with the source object unchanged, at most one run of copy_once on a
\* key returns copied; the runs after a copied one return noop and PUT nothing.
C7_AtMostOneCopied ==
    \A k \in Keys : ncopied[k] <= 1

\* C8, as stated: a source object modified less than 5 seconds before the
\* HEAD is never copied and never PUT, also when the second HEAD raises or
\* answers no LastModified.
C8_RecentNeverCopied ==
    (CopyCalled /\ call.env.age < 5) => (call.status # "copied" /\ NoPut)

\* C8, amended: when the second HEAD of the source answers a LastModified
\* less than 5 seconds before now, copy_once returns no copied outcome and
\* issues no GET and no PUT; when that HEAD raises or answers no
\* LastModified the guard is passed over and the copy goes on.
C8_RecentNeverCopiedWhenHeadAnswers ==
    (CopyCalled /\ call.env.age < 5 /\ call.env.head2 = "ok") =>
        /\ call.status # "copied"
        /\ NoPut
        /\ CountOps(call.ops, "GET") = 0
        /\ dstObj[call.key] = call.dst

C8_Witness ==
    /\ CopyCalled /\ call.env.age = 4 /\ call.env.head2 = "ok"
    /\ call.src.present /\ call.src.size > 0 /\ ~call.dst.present
    /\ call.status = "skipped" /\ call.reason = "file_growing"

RECURSIVE LeadingThrottles(_)
LeadingThrottles(script) ==
    IF script = <<>> \/ Head(script) \notin ThrottleKinds THEN 0
    ELSE 1 + LeadingThrottles(Tail(script))

Tries == CountOps(call.ops, "GET")
Min(a, b) == IF a < b THEN a ELSE b

\* C9: one copy_once call makes at most 4 GET/PUT tries; the sleeps between
\* consecutive tries are 1, 2 and 4 seconds in that order, one after each
\* throttled try but the fourth; an error with any other code ends the call
\* on the try where it occurs, without a sleep.
C9_RetriesBounded ==
    CopyCalled =>
        /\ Tries <= 4 /\ CountOps(call.ops, "PUT") <= 4
        /\ Sleeps(call.ops) = SubSeq(<<1, 2, 4>>, 1, Len(Sleeps(call.ops)))
        /\ Tries >= 1 =>
            /\ Tries = Min(LeadingThrottles(call.env.script) + 1, 4)
            /\ Len(Sleeps(call.ops)) = Tries - 1
            /\ call.ops[Len(call.ops)].op # "sleep"
        /\ \A i \in 1..Len(call.ops) :
              call.ops[i].op = "sleep" =>
                  /\ i > 1 /\ call.ops[i - 1].op \in {"GET", "PUT"}
                  /\ i < Len(call.ops) /\ call.ops[i + 1].op = "GET"
        /\ (call.raised /\ call.code \notin ThrottlingCodes /\ Tries >= 1) =>
              Tries = LeadingThrottles(call.env.script) + 1

C9_Witness ==
    /\ CopyCalled /\ call.env.tcode = "SlowDown"
    /\ Tries = 4 /\ Sleeps(call.ops) = <<1, 2, 4>>
    /\ call.status = "copied"

CleanupCalled == call.fn = "cleanup_once"

\* C16: cleanup_once is idempotent: the call that follows one that returned
\* deleted, on the same key with no object re-created under it and the
\* endpoint failing with no error, returns noop and raises nothing.
C16_CleanupIdempotent ==
    [][(/\ CleanupCalled /\ call.status = "deleted"
        /\ ncalls' = ncalls + 1
        /\ call'.fn = "cleanup_once" /\ call'.key = call.key
        /\ call'.answer \notin OtherCodes)
       => (call'.status = "noop" /\ ~call'.raised)]_vars

\* C17: when every one of the 4 tries of one copy_once call fails with a
\* throttling code, the call returns {failed, max_retries_exceeded} and does
\* not raise.
C17_AllThrottledReturnsFailed ==
    (CopyCalled /\ Tries = max_retries + 1
       /\ LeadingThrottles(call.env.script) = max_retries + 1) =>
        (~call.raised /\ call.status = "failed" /\ call.reason = "max_retries_exceeded")

(***************************************************************************)
(* Properties of process_queue_once with one worker, checked under Spec.   *)
(***************************************************************************)
Handled == last.phase \in {"copy", "cleanup"}
FailingTick == Handled /\ last.verdict = "failed"
RowDone(i) == store[i].exists /\ store[i].status = "done"

\* C2: every row has 0 <= attempts <= MAX_ATTEMPTS, and once a failing tick
\* has committed no row with attempts = MAX_ATTEMPTS is in the store: the
\* tick that counted the fifth attempt deleted its row, in the copy phase and
\* in the cleanup phase alike.
C2_AttemptsBounded ==
    /\ \A i \in Ids(store) :
          store[i].exists => (0 <= store[i].attempts /\ store[i].attempts <= MAX_ATTEMPTS)
    /\ FailingTick =>
          /\ \A i \in Ids(store) : store[i].exists => store[i].attempts # MAX_ATTEMPTS
          /\ last.held <= MAX_ATTEMPTS
          /\ (last.held = MAX_ATTEMPTS) = last.deleted
          /\ last.deleted = ~store[last.id].exists

C2_Witness ==
    /\ FailingTick /\ last.phase = "cleanup"
    /\ last.held = MAX_ATTEMPTS /\ ~store[last.id].exists

\* C4: a tick that handles a task and does not leave it done counts exactly
\* one more attempt for it, whatever the cause; a tick that leaves it done
\* keeps its attempts; so the attempts of a row never decrease.
C4_AttemptsStep ==
    [][(ticksOn' # ticksOn) =>
          LET i == last'.id IN
          /\ ticksOn'[i] = ticksOn[i] + 1
          /\ (store'[i].exists /\ store'[i].status # "done") =>
                store'[i].attempts = store[i].attempts + 1
          /\ ~store'[i].exists => last'.held = store[i].attempts + 1
          /\ (store'[i].exists /\ store'[i].status = "done") =>
                (store'[i].attempts = store[i].attempts /\ last'.held = store[i].attempts)
          /\ \A j \in Ids(store) :
                (store[j].exists /\ store'[j].exists) =>
                    store'[j].attempts >= store[j].attempts]_vars

C4_Witness ==
    /\ last.phase = "copy" /\ last.status = "skipped" /\ last.reason = "file_growing"
    /\ last.before.attempts = 0 /\ last.nput = 0
    /\ store[last.id].status = "queued" /\ store[last.id].attempts = 1

\* C5: a copy-phase tick leaves the task done only when the copy returned
\* copied or noop; after any other outcome, or an exception, the task is not
\* done and the tick issued no DELETE.
C5_DoneOnlyWhenCopied ==
    last.phase = "copy" =>
        /\ RowDone(last.id) = (~last.raised /\ last.status \in {"copied", "noop"})
        /\ ~RowDone(last.id) => (last.ndelete = 0 /\ last.verdict = "failed")
        /\ last.ndelete = 0

C5_Witness ==
    /\ last.phase = "copy" /\ last.status = "skipped" /\ last.reason = "empty_source"
    /\ store[last.id].exists /\ store[last.id].status = "queued"
    /\ last.ndelete = 0

Rows == {i \in Ids(store) : store[i].exists}
GaugeSum ==
    gauge["queued"] + gauge["running"] + gauge["done"] + gauge["failed"] + gauge["cleanup"]

\* C12: after every return of process_queue_once, the gauge's values over
\* the five statuses sum to the number of rows in the store, each being the
\* number of rows in its status, also after a tick that deleted a row.
C12_GaugeSumsToRows ==
    last.phase # "none" =>
        /\ GaugeSum = Cardinality(Rows)
        /\ \A st \in _QUEUE_STATUSES :
              gauge[st] = Cardinality({i \in Rows : store[i].status = st})

C12_Witness ==
    /\ Handled /\ last.deleted /\ ~store[last.id].exists
    /\ Cardinality(Rows) >= 1 /\ GaugeSum = Cardinality(Rows)
    /\ \E i \in Rows : store[i].status = "done"

JobLabels == {"copied", "noop", "missing_source", "blocked", "deleted", "error", "cleanup_error"}

\* C13: on the tick that deletes a task row because its attempts reached
\* MAX_ATTEMPTS, migration_jobs_total is incremented with one of the labels
\* copied, noop, missing_source, blocked, deleted, error, cleanup_error,
\* whatever the cause of the failure.
C13_DeletingTickCounted ==
    (Handled /\ last.deleted) =>
        (Len(last.incs) = 1 /\ last.incs[1] \in JobLabels)

\* C15: each tick handles the oldest row among those whose status is
\* queued, cleanup or failed, and writes no other row, so never a running or
\* done one; a requeued task keeps its place in the created_at order, so no
\* younger ready task is handled while an older one remains.
C15_OldestReadyFirst ==
    [][IF ReadyIds(store) = {}
       THEN last'.phase = "idle" /\ store' = store
       ELSE /\ last'.id \in ReadyIds(store)
            /\ \A j \in ReadyIds(store) : last'.id <= j
            /\ last'.before = store[last'.id]
            /\ \A j \in Ids(store) \ {last'.id} : store'[j] = store[j]
            /\ \A j \in Ids(store) :
                  (store[j].exists /\ store[j].status \in {"running", "done"}) =>
                      store'[j] = store[j]]_vars

C15_Witness ==
    /\ Len(store) >= 2
    /\ last.id = 1 /\ ticksOn[1] = 2 /\ ticksOn[2] = 0
    /\ store[1].exists /\ store[1].status = "queued" /\ store[1].attempts = 2
    /\ store[2].exists /\ store[2].status \in ReadyStatuses

Issued(op) == \E k \in last.kinds : k[1] = op

\* C18: a cleanup tick whose deletion fails with an error other than
\* not-found and whose attempts after the increment is below MAX_ATTEMPTS
\* leaves the row in status cleanup, never queued; a row in cleanup only ever
\* stays in cleanup, becomes done or is deleted, so it never enters the copy
\* phase, and its ticks issue no GET and no PUT.
C18_CleanupStaysCleanup ==
    /\ [](last.phase = "cleanup" =>
            /\ last.before.status = "cleanup"
            /\ ~Issued("GET") /\ ~Issued("PUT") /\ last.nput = 0
            /\ (last.raised /\ last.held < MAX_ATTEMPTS) =>
                  /\ store[last.id].exists
                  /\ store[last.id].status = "cleanup"
                  /\ store[last.id].attempts = last.before.attempts + 1)
    /\ [][\A i \in Ids(store) :
            (store[i].exists /\ store[i].status = "cleanup") =>
                /\ (store'[i].exists => store'[i].status \in {"cleanup", "done"})
                /\ (last'.id = i => last'.phase = "cleanup")]_vars

C18_Witness ==
    /\ last.phase = "cleanup" /\ last.raised /\ last.code = "AccessDenied"
    /\ last.before.attempts = 0 /\ last.held = 1
    /\ store[last.id].exists /\ store[last.id].status = "cleanup"
    /\ store[last.id].attempts = 1
    /\ srcObj[last.before.key].present

\* C19: after a tick whose copy outcome is copied, the FileMeta row of the
\* task's key, when there is one, holds the token of that copy; a tick with
\* any other outcome leaves every FileMeta row as it was; no tick creates or
\* removes a FileMeta row, or writes the row of another key.
C19_TokenOnCopiedOnly ==
    [][/\ IF last'.phase = "copy" /\ last'.status = "copied"
          THEN LET k == last'.before.key IN
               /\ last'.token \in Tokens
               /\ fileMeta[k].exists => fileMeta'[k] = Meta(last'.token)
               /\ \A j \in Keys \ {k} : fileMeta'[j] = fileMeta[j]
          ELSE fileMeta' = fileMeta /\ last'.token = ""
       /\ \A j \in Keys : fileMeta'[j].exists = fileMeta[j].exists]_vars

C19_Witness ==
    /\ last.phase = "copy" /\ last.status = "copied"
    /\ fileMeta[last.before.key].exists
    /\ fileMeta[last.before.key].version_token = last.token
    /\ last.token # "t0" /\ last.token \in Tokens
    /\ \E k \in Keys : ~fileMeta[k].exists

\* C20: a copy-phase tick issues no DELETE and writes nothing on the source
\* endpoint, whose objects it leaves as they were; a cleanup-phase tick
\* issues no GET, PUT or HEAD (only the DELETE on the source) and leaves the
\* destination's objects as they were.
C20_PhasesKeepToTheirEndpoint ==
    [][/\ last'.phase = "copy" =>
            /\ srcObj' = srcObj
            /\ last'.ndelete = 0
            /\ \A k \in last'.kinds :
                  /\ k[1] # "DELETE"
                  /\ k[1] = "PUT" => k[2] = 1
                  /\ k[1] = "GET" => k[2] = 0
       /\ last'.phase = "cleanup" =>
            /\ dstObj' = dstObj
            /\ last'.kinds = {<<"DELETE", 0>>}
            /\ last'.nput = 0
            /\ \A k \in Keys \ {last'.before.key} : srcObj'[k] = srcObj[k]]_vars

C20_Witness ==
    /\ last.phase = "cleanup" /\ last.status = "deleted"
    /\ ~srcObj[last.before.key].present
    /\ \E i \in Ids(store) :
          /\ i # last.id /\ ticksOn[i] = 1 /\ RowDone(i)
          /\ srcObj[store[i].key].present
          /\ dstObj[store[i].key] = srcObj[store[i].key]

(***************************************************************************)
(* The encryption gate, checked under BlockedSpec.                         *)
(***************************************************************************)
\* C14: with enforcement on and the destination not encrypted, copy_once
\* returns blocked / destination_not_encrypted before any sleep, HEAD, GET,
\* PUT or bucket creation; the tick counts the attempt, increments
\* migration_jobs_total{result="blocked"} once and nothing else, and a task
\* that had attempts = 0 is left queued with error
\* "destination_not_encrypted" and attempts = 1.
C14_BlockedBeforeAnyIO ==
    last.phase = "copy" =>
        /\ last.status = "blocked" /\ last.reason = "destination_not_encrypted"
        /\ ~last.raised
        /\ last.kinds = {}
        /\ last.incs = <<"blocked">>
        /\ last.verdict = "failed" /\ last.held = last.before.attempts + 1
        /\ last.before.attempts = 0 =>
              /\ store[last.id].exists
              /\ store[last.id].status = "queued"
              /\ store[last.id].error = "destination_not_encrypted"
              /\ store[last.id].attempts = 1

C14_Witness ==
    /\ last.phase = "copy" /\ last.status = "blocked" /\ last.kinds = {}
    /\ last.before.attempts = 0 /\ last.before.status = "queued"
    /\ srcObj[last.before.key].present /\ dstObj[last.before.key] = srcObj[last.before.key]
    /\ store[last.id].status = "queued" /\ store[last.id].attempts = 1
    /\ store[last.id].error = "destination_not_encrypted"

(***************************************************************************)
(* Progress of the single worker, checked under LiveSpec.                  *)
(***************************************************************************)
Settled(i) == ~store[i].exists \/ store[i].status = "done"
NoneReady == \A i \in 1..NTasks : ~(store[i].exists /\ store[i].status \in ReadyStatuses)

\* C3: with one worker that keeps calling process_queue_once and no task
\* inserted, every queued, failed or cleanup task ends done or deleted, after
\* at most MAX_ATTEMPTS ticks spent on it; from then on no row is ready and
\* process_queue_once returns False.
C3_QueueDrains ==
    /\ \A i \in 1..NTasks :
          (store[i].exists /\ store[i].status \in ReadyStatuses) ~> Settled(i)
    /\ [](\A i \in 1..NTasks : ticksOn[i] <= MAX_ATTEMPTS)
    /\ <>[]NoneReady
    /\ [][NoneReady => (NoneReady' /\ ~last'.ret /\ last'.phase = "idle")]_vars

C3_Witness ==
    /\ NoneReady /\ last.phase = "idle" /\ ~last.ret
    /\ \E i \in 1..NTasks : ticksOn[i] = MAX_ATTEMPTS /\ ~store[i].exists
    /\ \E i \in 1..NTasks : ticksOn[i] = 1 /\ store[i].exists /\ store[i].status = "done"

(***************************************************************************)
(* The queue observer, checked under BacklogSpec.                          *)
(***************************************************************************)
QueuedNow == Cardinality({i \in Ids(store) : store[i].exists /\ store[i].status = "queued"})

\* C10: on every tick, idle ticks included, the migration_backlog alert is
\* emitted if and only if more than 20 rows are queued at the end of the
\* tick, and it carries that number in its message and its metadata.
C10_AlertIffBacklog ==
    last.phase # "none" =>
        /\ last.alert.fired = (QueuedNow > 20)
        /\ last.alert.fired =>
              /\ last.alert.name = "migration_backlog" /\ last.alert.severity = "warning"
              /\ last.alert.n = QueuedNow /\ last.alert.queued = QueuedNow
        /\ gauge["queued"] = QueuedNow

C10_Witness ==
    /\ last.phase = "copy" /\ last.alert.fired /\ last.alert.n = 21
    /\ QueuedNow = 21 /\ RowDone(last.id)

AllQueued(n) ==
    /\ Len(store) = n
    /\ \A i \in 1..n : store[i].exists /\ store[i].status = "queued"
BacklogAlert(n) ==
    [fired |-> TRUE, name |-> "migration_backlog", severity |-> "warning",
     n |-> n, queued |-> n]

\* C11, as stated: when the store holds exactly 21 queued tasks, the tick run
\* on it emits create_alert("migration_backlog", "warning",
\* "21 migration tasks queued", {queued: 21}), whatever the outcome of the
\* task it processes.
C11_AlertOnAnyOutcome ==
    [][AllQueued(21) => last'.alert = BacklogAlert(21)]_vars

\* C11, amended: when the store holds exactly 21 queued tasks, the tick run
\* on it emits that alert exactly when the task it processes fails and is
\* requeued, so that 21 rows are still queued at the end of the tick; when
\* the task ends done or is deleted, 20 rows are queued and no alert is
\* emitted.
C11_AlertWhenStillQueued ==
    [][AllQueued(21) =>
          /\ last'.phase = "copy" /\ last'.id = 1
          /\ IF last'.verdict = "failed" /\ ~last'.deleted
             THEN QueuedNow' = 21 /\ last'.alert = BacklogAlert(21)
             ELSE QueuedNow' = 20 /\ last'.alert = NoAlert]_vars

C11_Witness ==
    /\ Len(store) = 21 /\ AllQueued(21)
    /\ last.phase = "copy" /\ last.id = 1 /\ last.before.status = "queued"
    /\ last.status = "blocked" /\ last.before.attempts = 0
    /\ \A i \in 2..21 : ticksOn[i] = 0
    /\ ticksOn[1] = 1
    /\ last.alert = BacklogAlert(21)

(***************************************************************************)
(* ChaosSpec: NCallers callers, each making one call of fail_endpoint or   *)
(* recover_endpoint; a call is cut between its read of the setting (lines  *)
(* 15, 22) and its write (lines 17, 25).                                   *)
(***************************************************************************)
ChaosInit ==
    /\ \E S \in SUBSET Names : chaos = [NoChaos EXCEPT !.stored = join(sorted(S))]
    /\ store = <<>>
    /\ ticksOn = <<>>
    /\ srcObj = [k \in Keys |-> NoObj]
    /\ dstObj = [k \in Keys |-> NoObj]
    /\ gauge = [s \in _QUEUE_STATUSES |-> 0]
    /\ last = NoTick
    /\ call = NoCall
    /\ ncalls = 0
    /\ ncopied = [k \in Keys |-> 0]
    /\ fileMeta = InitMeta
    /\ IdleWorkers

QueueUnchanged ==
    UNCHANGED <<store, srcObj, dstObj, gauge, last, ticksOn, call, ncalls, ncopied, pc, cur,
                loc, fileMeta>>

\* Lines 15-16: current = set(get_failed_endpoints()); current.add(name)
FailRead(c, n) ==
    /\ chaos.pc[c] = "idle"
    /\ chaos' = [chaos EXCEPT !.pc[c] = "fail_write", !.name[c] = n,
                              !.current[c] = get_failed_endpoints(chaos.stored) \cup {n}]
    /\ QueueUnchanged

\* Lines 22-24: current = set(get_failed_endpoints()); current.remove(name)
RecoverRead(c, n) ==
    /\ chaos.pc[c] = "idle"
    /\ chaos' = [chaos EXCEPT !.pc[c] = "recover_write", !.name[c] = n,
                              !.current[c] = get_failed_endpoints(chaos.stored) \ {n}]
    /\ QueueUnchanged

\* Lines 17-18 and 25-26: set_setting(FAIL_KEY, ",".join(sorted(current)));
\* return sorted(current)
Write(c, at, to) ==
    /\ chaos.pc[c] = at
    /\ chaos' = [chaos EXCEPT !.stored = join(sorted(chaos.current[c])),
                              !.ret[c] = sorted(chaos.current[c]),
                              !.pc[c] = to]
    /\ QueueUnchanged
FailWrite(c) == Write(c, "fail_write", "failed")
RecoverWrite(c) == Write(c, "recover_write", "recovered")

ChaosNext ==
    \E c \in Callers :
        \/ \E n \in Names : FailRead(c, n)
        \/ \E n \in Names : RecoverRead(c, n)
        \/ FailWrite(c)
        \/ RecoverWrite(c)

ChaosSpec == ChaosInit /\ [][ChaosNext]_vars

(***************************************************************************)
(* Concurrent workers, checked under ConcSpec.                             *)
(***************************************************************************)
\* C1: no task is handled by two workers at the same time: no two workers
\* have both run the copy or the cleanup of the same task with neither
\* having committed its final status.
C1_OneWorkerPerTask ==
    \A w1 \in Workers, w2 \in Workers :
        (w1 # w2 /\ pc[w1] = "ran" /\ pc[w2] = "ran") => cur[w1] # cur[w2]

(***************************************************************************)
(* Concurrent callers of chaos.py, checked under ChaosSpec.                *)
(***************************************************************************)
Returned(c) == chaos.pc[c] \in {"failed", "recovered"}

\* C21: the stored chaos_fail_endpoints set reflects every completed
\* operation: once all the callers have returned, every name a caller added
\* with fail_endpoint, and that no caller removed with recover_endpoint, is
\* in get_failed_endpoints(), whatever the interleaving of the callers.
C21_NoLostUpdate ==
    (\A c \in Callers : Returned(c)) =>
        \A c \in Callers :
            (/\ chaos.pc[c] = "failed"
             /\ \A d \in Callers : chaos.pc[d] = "recovered" => chaos.name[d] # chaos.name[c])
            => chaos.name[c] \in get_failed_endpoints(chaos.stored)

====
